---- MODULE Spec2Model ----
(***************************************************************************)
(* Model of src/app.py: the Flask service that lists the download options  *)
(* of a video (/get_choices) and fetches a stream or an MP3 transcoding of *)
(* its audio (/download).  Python strings are TLA+ strings, handled with   *)
(* Len, SubSeq and \o; the en dash of the synthetic labels is written "-". *)
(***************************************************************************)
EXTENDS Integers, Sequences, FiniteSets, TLC

(***************************************************************************)
(* Bounds of the model.                                                    *)
(***************************************************************************)
\* longest upstream stream list drawn in Init
MaxStreams == 2
\* number of requests a behaviour serves
MaxRequests == 2

(***************************************************************************)
(* Python string primitives.                                               *)
(***************************************************************************)
UpperLetters == "ABCDEFGHIJKLMNOPQRSTUVWXYZ"
LowerLetters == "abcdefghijklmnopqrstuvwxyz"
Digits == "0123456789"

CharAt(s, i) == SubSeq(s, i, i)

\* c in s, for a one-character string c
CharIn(c, s) == \E i \in 1..Len(s) : CharAt(s, i) = c

IndexIn(c, s) == CHOOSE i \in 1..Len(s) : CharAt(s, i) = c

LowerChar(c) == IF CharIn(c, UpperLetters) THEN CharAt(LowerLetters, IndexIn(c, UpperLetters)) ELSE c

RECURSIVE Lower(_)
\* str.lower()
Lower(s) == IF Len(s) = 0 THEN "" ELSE LowerChar(CharAt(s, 1)) \o Lower(SubSeq(s, 2, Len(s)))

\* sub in s
Contains(s, sub) == \E i \in 1..(Len(s) - Len(sub) + 1) : SubSeq(s, i, i + Len(sub) - 1) = sub

\* s.find(sep) + 1, or 0 when sep does not occur
Find(s, sep) ==
  IF Contains(s, sep)
  THEN CHOOSE i \in 1..(Len(s) - Len(sep) + 1) :
         /\ SubSeq(s, i, i + Len(sep) - 1) = sep
         /\ \A j \in 1..(i - 1) : SubSeq(s, j, j + Len(sep) - 1) # sep
  ELSE 0

RECURSIVE Split(_, _)
\* s.split(sep), for a non-empty sep
Split(s, sep) ==
  IF Find(s, sep) = 0
  THEN <<s>>
  ELSE <<SubSeq(s, 1, Find(s, sep) - 1)>> \o Split(SubSeq(s, Find(s, sep) + Len(sep), Len(s)), sep)

RECURSIVE NatStr(_)
\* str(n) for a natural number n
NatStr(n) == IF n < 10 THEN CharAt(Digits, n + 1) ELSE NatStr(n \div 10) \o CharAt(Digits, (n % 10) + 1)

\* repr of the float h/100 for a natural h: "30.0", "1.5", "0.07"
FloatStr(h) ==
  NatStr(h \div 100) \o "." \o
    (IF h % 100 = 0 THEN "0"
     ELSE IF h % 10 = 0 THEN NatStr((h % 100) \div 10)
     ELSE NatStr((h % 100) \div 10) \o NatStr(h % 10))

\* round(num/den) to the nearest integer, ties to even (Python's round)
RoundHalfEven(num, den) ==
  LET q == num \div den
      r == num % den
  IN  IF 2 * r < den THEN q
      ELSE IF 2 * r > den THEN q + 1
      ELSE IF q % 2 = 0 THEN q ELSE q + 1

(***************************************************************************)
(* The stream descriptors of the collaborator.  filesize is in bytes;      *)
(* NoSize stands for None, NoRes for a resolution of None.                 *)
(***************************************************************************)
NoSize == -1
NoRes == ""

AllStreams ==
  { [itag |-> 22,  resolution |-> "720p",  mime_type |-> "video/mp4",  is_progressive |-> TRUE,  filesize |-> 52428800],
    [itag |-> 136, resolution |-> "720p",  mime_type |-> "video/mp4",  is_progressive |-> FALSE, filesize |-> NoSize],
    [itag |-> 248, resolution |-> "1080p", mime_type |-> "video/webm", is_progressive |-> FALSE, filesize |-> 1000],
    [itag |-> 140, resolution |-> NoRes,   mime_type |-> "audio/mp4",  is_progressive |-> FALSE, filesize |-> 1782580] }

\* the stream lists a video can have, in the collaborator's native order
StreamLists ==
  { q \in UNION { [1..n -> AllStreams] : n \in 0..MaxStreams } :
      \A i, j \in 1..Len(q) : i # j => q[i].itag # q[j].itag }

MimeKind(s) == Split(s.mime_type, "/")[1]

includes_video_track(s) == s.is_progressive \/ MimeKind(s) = "video"

includes_audio_track(s) == s.is_progressive \/ MimeKind(s) = "audio"

RECURSIVE DigitsValue(_, _)
DigitsValue(s, acc) ==
  IF Len(s) = 0 THEN acc
  ELSE IF CharIn(CharAt(s, 1), Digits)
       THEN DigitsValue(SubSeq(s, 2, Len(s)), 10 * acc + IndexIn(CharAt(s, 1), Digits) - 1)
       ELSE DigitsValue(SubSeq(s, 2, Len(s)), acc)

\* the key of order_by('resolution'): the digits of the resolution
ResolutionKey(s) == DigitsValue(s.resolution, 0)

RECURSIVE Reverse(_)
Reverse(q) == IF Len(q) = 0 THEN <<>> ELSE Reverse(Tail(q)) \o <<Head(q)>>

RECURSIVE InsertSorted(_, _)
\* stable insertion of x after the entries whose key is not greater
InsertSorted(q, x) ==
  IF Len(q) = 0 THEN <<x>>
  ELSE IF ResolutionKey(Head(q)) <= ResolutionKey(x)
       THEN <<Head(q)>> \o InsertSorted(Tail(q), x)
       ELSE <<x>> \o q

RECURSIVE SortByResolution(_)
SortByResolution(q) ==
  IF Len(q) = 0 THEN <<>>
  ELSE InsertSorted(SortByResolution(SubSeq(q, 1, Len(q) - 1)), q[Len(q)])

\* yt.streams.order_by('resolution').desc(): the collaborator's ordering, taken
\* as a reordering of all streams; a stream without a resolution, which lines
\* 47-48 provide for, has key 0 and comes last
OrderedStreams(q) == Reverse(SortByResolution(q))

(***************************************************************************)
(* estimate_compressed_size and get_download_options.                      *)
(***************************************************************************)
\* round(s.filesize / 1048576, 2) if s.filesize else None, in hundredths of
\* a megabyte: filesize * 100 / 1048576 = filesize * 25 / 262144
SizeMb(filesize) ==
  IF filesize = NoSize \/ filesize = 0 THEN NoSize ELSE RoundHalfEven(filesize * 25, 262144)

\* estimate_compressed_size(original_size_mb), the argument in hundredths.
\* 6 * h / 10 is never half-way between two integers, so round(..., 2) is
\* the nearest hundredth.
estimate_compressed_size(original_size_mb) ==
  IF original_size_mb = NoSize \/ original_size_mb = 0
  THEN "?"
  ELSE FloatStr(RoundHalfEven(original_size_mb * 6, 10)) \o " MB (est.)"

StreamRes(s) == IF s.resolution = NoRes THEN "Audio only" ELSE s.resolution

StreamType(s) ==
  IF s.is_progressive THEN "video+audio"
  ELSE IF includes_video_track(s) THEN "video only" ELSE "audio only"

StreamExt(s) == LET parts == Split(s.mime_type, "/") IN parts[Len(parts)]

StreamChoice(s) ==
  [label |-> StreamRes(s) \o " | " \o StreamType(s) \o " | " \o StreamExt(s) \o " | "
               \o estimate_compressed_size(SizeMb(s.filesize)),
   resolution |-> StreamRes(s),
   type |-> StreamType(s),
   extension |-> StreamExt(s)]

\* mutation: the synthetic choices appended in the wrong order
SyntheticChoicesReordered ==
  << [label |-> "Convert to MP3 - Medium Quality (192kbps)", type |-> "mp3_medium"],
     [label |-> "Convert to MP3 - High Quality (320kbps)", type |-> "mp3_high"],
     [label |-> "Convert to MP3 - Low Quality (128kbps)", type |-> "mp3_low"] >>

SyntheticChoices ==
  << [label |-> "Convert to MP3 - High Quality (320kbps)", type |-> "mp3_high"],
     [label |-> "Convert to MP3 - Medium Quality (192kbps)", type |-> "mp3_medium"],
     [label |-> "Convert to MP3 - Low Quality (128kbps)", type |-> "mp3_low"] >>

\* the choices list of get_download_options, for the native stream list q
get_download_options(q) ==
  [i \in 1..Len(q) |-> StreamChoice(OrderedStreams(q)[i])] \o SyntheticChoices

(***************************************************************************)
(* convert_to_mp3: file name and bitrate.                                  *)
(***************************************************************************)
Title == "A b!"

TempPath == "downloads/temp.mp4"

IsAlnum(c) == CharIn(c, UpperLetters) \/ CharIn(c, LowerLetters) \/ CharIn(c, Digits)

RECURSIVE KeepSafe(_)
\* "".join(c for c in title if c.isalnum() or c in (' ', '-', '_'))
KeepSafe(s) ==
  IF Len(s) = 0 THEN ""
  ELSE (IF IsAlnum(CharAt(s, 1)) \/ CharIn(CharAt(s, 1), " -_") THEN CharAt(s, 1) ELSE "")
         \o KeepSafe(SubSeq(s, 2, Len(s)))

RECURSIVE Strip(_)
\* str.strip(), over strings whose only whitespace is the space
Strip(s) ==
  IF Len(s) = 0 THEN ""
  ELSE IF CharAt(s, 1) = " " THEN Strip(SubSeq(s, 2, Len(s)))
  ELSE IF CharAt(s, Len(s)) = " " THEN Strip(SubSeq(s, 1, Len(s) - 1))
  ELSE s

Mp3Path(title, quality) == "downloads/" \o Strip(KeepSafe(title)) \o " (" \o quality \o ").mp3"

Bitrate(quality) ==
  CASE quality = "High" -> "320k"
    [] quality = "Medium" -> "192k"
    [] quality = "Low" -> "128k"

\* the quality api_download passes to convert_to_mp3
QualityOf(choice) ==
  IF Contains(Lower(choice), "high") THEN "High"
  ELSE IF Contains(Lower(choice), "medium") THEN "Medium"
  ELSE "Low"

\* mutation: "mp3" in choice, without lower()
IsMp3ChoiceCaseSensitive(choice) == Contains(choice, "mp3")

\* "mp3" in choice.lower()
IsMp3Choice(choice) == Contains(Lower(choice), "mp3")

(***************************************************************************)
(* Stream selection of api_download.                                       *)
(***************************************************************************)
\* query.first(): the first stream of q, in native order, that is in kept,
\* as a set of at most one stream
First(q, kept) ==
  IF \E i \in 1..Len(q) : q[i] \in kept
  THEN {q[CHOOSE i \in 1..Len(q) : q[i] \in kept /\ \A j \in 1..(i - 1) : q[j] \notin kept]}
  ELSE {}

\* mutation: the first stream with an audio track, progressive ones included
FirstAudioTrack(q) == First(q, {s \in AllStreams : includes_audio_track(s)})

\* yt.streams.filter(only_audio=True).first()
FirstAudio(q) == First(q, {s \in AllStreams : includes_audio_track(s) /\ ~includes_video_track(s)})

\* mutation: no fall back to the resolution alone
SelectStreamNoFallback(q, res, ext) ==
  First(q, {s \in AllStreams : s.resolution # NoRes /\ s.resolution = res /\ s.mime_type = "video/" \o ext})

\* filter(res=res, mime_type="video/<ext>").first(), then filter(res=res).first()
SelectStream(q, res, ext) ==
  LET exact == {s \in AllStreams : s.resolution # NoRes /\ s.resolution = res /\ s.mime_type = "video/" \o ext}
      byRes == {s \in AllStreams : s.resolution # NoRes /\ s.resolution = res}
  IN  IF First(q, exact) # {} THEN First(q, exact) ELSE First(q, byRes)

\* stream.download(output_path=output_dir) with the collaborator's file name
StreamPath(s) == "downloads/" \o Title \o "." \o StreamExt(s)

(***************************************************************************)
(* Requests.                                                               *)
(***************************************************************************)
Workers == {"w1", "w2"}

VideoIds == {"", "dQw4w9WgXcQ"}

\* the choice strings a client sends: any label of any stream, the synthetic
\* labels, free-form MP3 choices, malformed labels, and labels of streams
\* the video does not have
ChoiceInputs ==
  {StreamChoice(s).label : s \in AllStreams}
    \cup {SyntheticChoices[i].label : i \in 1..3}
    \cup {"", "MP3 High", "mp3 high", "Mp3 HIGH", "mp3 low", "mp3 medium high",
          "720p | MP3 | mp4 | ?", "720p", "720p | video only",
          "720p | video only | webm | ?", "144p | video only | mp4 | ?"}

MsgNoVideoId == "video_id query parameter is required"
MsgRequired == "video_id and choice query parameters are required"
MsgNoAudio == "No audio stream available"
MsgNoQuality == "Selected quality not available"
MsgIndex == "list index out of range"
MsgUpstream == "video unavailable"
MsgDownload == "download failed"
MsgTranscode == "transcoding failed"
MsgNoFile == "No such file or directory: 'downloads/temp.mp4'"

Absent == "absent"

\* a worker that has served nothing
Fresh ==
  [pc |-> "idle", endpoint |-> "", video_id |-> "", choice |-> "",
   status |-> 0, error |-> "", body |-> "", listed |-> <<>>,
   path |-> "", stream |-> 0, downloaded |-> 0, quality |-> "", bitrate |-> "",
   opened |-> Absent, readFrom |-> Absent]

VARIABLES
  streams,    \* the video's streams, in the collaborator's native order
  dirExists,  \* whether the directory downloads/ exists
  files,      \* the files of downloads/
  temp,       \* the request whose audio downloads/temp.mp4 holds, or Absent
  remover,    \* history: the request whose os.remove last deleted it, or Absent
  workers,    \* per request thread: position, request, response
  served      \* number of requests begun

vars == <<streams, dirExists, files, temp, remover, workers, served>>

Init ==
  /\ streams \in StreamLists
  /\ dirExists = FALSE
  /\ files = {}
  /\ temp = Absent
  /\ remover = Absent
  /\ workers = [w \in Workers |-> Fresh]
  /\ served = 0

\* mutation: every error answered with status 500
FailAlways500(w, code, msg) ==
  [workers EXCEPT ![w] = [@ EXCEPT !.pc = "idle", !.status = 500, !.error = msg, !.body = "json"]]

\* the response of a handler: jsonify({"error": msg}), status
Fail(w, code, msg) ==
  [workers EXCEPT ![w] = [@ EXCEPT !.pc = "idle", !.status = code, !.error = msg, !.body = "json"]]

\* send_file(path, as_attachment=True)
SendFile(w, itag) ==
  [workers EXCEPT ![w] = [@ EXCEPT !.pc = "idle", !.status = 200, !.body = "file", !.downloaded = itag]]

\* api_get_choices, lines 66-77
GetChoices(w) ==
  /\ workers[w].pc = "idle"
  /\ served < MaxRequests
  /\ served' = served + 1
  /\ \E video_id \in VideoIds, ok \in BOOLEAN :
       LET r == [Fresh EXCEPT !.endpoint = "get_choices", !.video_id = video_id]
       IN  workers' = [workers EXCEPT ![w] =
             IF video_id = ""
             THEN [r EXCEPT !.status = 400, !.error = MsgNoVideoId, !.body = "json"]
             ELSE IF ~ok
             THEN [r EXCEPT !.status = 500, !.error = MsgUpstream, !.body = "json"]
             ELSE [r EXCEPT !.status = 200, !.body = "json", !.listed = get_download_options(streams)]]
  /\ UNCHANGED <<streams, dirExists, files, temp, remover>>

\* api_download, lines 81-92: validation, os.makedirs, YouTube(url)
BeginDownload(w, inputs) ==
  /\ workers[w].pc = "idle"
  /\ served < MaxRequests
  /\ served' = served + 1
  /\ \E video_id \in VideoIds, choice \in inputs :
       LET r == [Fresh EXCEPT !.endpoint = "download", !.video_id = video_id, !.choice = choice]
       IN  IF video_id = "" \/ choice = ""
           THEN /\ workers' = [workers EXCEPT ![w] =
                     [r EXCEPT !.status = 400, !.error = MsgRequired, !.body = "json"]]
                /\ UNCHANGED dirExists
           ELSE /\ workers' = [workers EXCEPT ![w] = [r EXCEPT !.pc = "resolve"]]
                /\ dirExists' = TRUE
  /\ UNCHANGED <<streams, files, temp, remover>>

\* mutation: a label with fewer than three segments answered as a missing quality
ResolvedLenient(w, ok) ==
  LET choice == workers[w].choice
      parts == Split(choice, " | ")
      audio == [workers EXCEPT ![w].path = "audio"]
      direct == [workers EXCEPT ![w].path = "stream"]
  IN  IF IsMp3Choice(choice)
      THEN IF ~ok THEN [Fail(w, 500, MsgUpstream) EXCEPT ![w].path = "audio"]
           ELSE IF FirstAudio(streams) = {} THEN [Fail(w, 400, MsgNoAudio) EXCEPT ![w].path = "audio"]
           ELSE [audio EXCEPT ![w].pc = "download_audio",
                              ![w].stream = (CHOOSE s \in FirstAudio(streams) : TRUE).itag]
      ELSE IF ~ok THEN [Fail(w, 500, MsgUpstream) EXCEPT ![w].path = "stream"]
           ELSE IF Len(parts) < 3 \/ SelectStream(streams, parts[1], parts[3]) = {}
                THEN [Fail(w, 400, MsgNoQuality) EXCEPT ![w].path = "stream"]
           ELSE [direct EXCEPT ![w].pc = "download_stream",
                               ![w].stream = (CHOOSE s \in SelectStream(streams, parts[1], parts[3]) : TRUE).itag]

\* api_download, lines 95-98 and 112-119: classify the choice and find the
\* stream; ok tells whether the collaborator resolves the video
Resolved(w, ok) ==
  LET choice == workers[w].choice
      parts == Split(choice, " | ")
      audio == [workers EXCEPT ![w].path = "audio"]
      direct == [workers EXCEPT ![w].path = "stream"]
  IN  IF IsMp3Choice(choice)
      THEN IF ~ok THEN [Fail(w, 500, MsgUpstream) EXCEPT ![w].path = "audio"]
           ELSE IF FirstAudio(streams) = {} THEN [Fail(w, 400, MsgNoAudio) EXCEPT ![w].path = "audio"]
           ELSE [audio EXCEPT ![w].pc = "download_audio",
                              ![w].stream = (CHOOSE s \in FirstAudio(streams) : TRUE).itag]
      ELSE IF Len(parts) < 3 THEN [Fail(w, 500, MsgIndex) EXCEPT ![w].path = "stream"]
           ELSE IF ~ok THEN [Fail(w, 500, MsgUpstream) EXCEPT ![w].path = "stream"]
           ELSE IF SelectStream(streams, parts[1], parts[3]) = {}
                THEN [Fail(w, 400, MsgNoQuality) EXCEPT ![w].path = "stream"]
           ELSE [direct EXCEPT ![w].pc = "download_stream",
                               ![w].stream = (CHOOSE s \in SelectStream(streams, parts[1], parts[3]) : TRUE).itag]

Resolve(w) ==
  /\ workers[w].pc = "resolve"
  /\ \E ok \in BOOLEAN : workers' = Resolved(w, ok)
  /\ UNCHANGED <<streams, dirExists, files, temp, remover, served>>

\* mutation: the audio saved under the collaborator's file name, not temp.mp4
DownloadAudioDefaultName(w) ==
  /\ workers[w].pc = "download_audio"
  /\ \E ok \in BOOLEAN, partial \in BOOLEAN :
       LET s == CHOOSE s \in AllStreams : s.itag = workers[w].stream
       IN  /\ workers' = IF ok THEN [workers EXCEPT ![w] = [@ EXCEPT !.pc = "open_clip"]]
                         ELSE Fail(w, 500, MsgDownload)
           /\ files' = IF ok \/ partial THEN files \cup {StreamPath(s)} ELSE files
  /\ UNCHANGED <<streams, dirExists, temp, remover, served>>

\* api_download, line 100: stream.download(output_path=output_dir, filename="temp.mp4");
\* a failed download may leave a partial file
DownloadAudio(w) ==
  /\ workers[w].pc = "download_audio"
  /\ \E ok \in BOOLEAN, partial \in BOOLEAN :
       IF ok
       THEN /\ workers' = [workers EXCEPT ![w] = [@ EXCEPT !.pc = "open_clip"]]
            /\ files' = files \cup {TempPath}
            /\ temp' = w
       ELSE /\ workers' = Fail(w, 500, MsgDownload)
            /\ files' = IF partial THEN files \cup {TempPath} ELSE files
            /\ temp' = IF partial THEN w ELSE temp
  /\ UNCHANGED <<streams, dirExists, remover, served>>

\* api_download, lines 102-107, and convert_to_mp3, lines 26-33: the quality,
\* os.makedirs, the output name, AudioFileClip(temp_path)
OpenClip(w) ==
  /\ workers[w].pc = "open_clip"
  /\ dirExists' = TRUE
  /\ workers' =
       IF TempPath \notin files
       THEN [Fail(w, 500, MsgNoFile) EXCEPT ![w].quality = QualityOf(workers[w].choice)]
       ELSE [workers EXCEPT ![w] = [@ EXCEPT !.pc = "transcoding",
               !.quality = QualityOf(workers[w].choice), !.opened = temp]]
  /\ UNCHANGED <<streams, files, temp, remover, served>>

\* mutation: the temporary file removed when transcoding fails
TranscodeCleanup(w) ==
  /\ workers[w].pc = "transcoding"
  /\ \E ok \in BOOLEAN, src \in ({workers[w].opened} \cup {temp}) \ {Absent} :
       IF ok
       THEN /\ workers' = [workers EXCEPT ![w] = [@ EXCEPT !.pc = "remove",
                 !.bitrate = Bitrate(workers[w].quality), !.readFrom = src]]
            /\ files' = files \cup {Mp3Path(Title, workers[w].quality)}
            /\ UNCHANGED temp
       ELSE /\ workers' = [Fail(w, 500, MsgTranscode) EXCEPT ![w].bitrate = Bitrate(workers[w].quality)]
            /\ files' = files \ {TempPath}
            /\ temp' = Absent
  /\ UNCHANGED <<streams, dirExists, remover, served>>

\* convert_to_mp3, lines 34-36: clip.write_audiofile(mp3_path, bitrate=bitrate).
\* The transcoder reads the audio it opened, or what the path holds now when
\* the file was replaced meanwhile; it may fail.
Transcode(w) ==
  /\ workers[w].pc = "transcoding"
  /\ \E ok \in BOOLEAN, src \in ({workers[w].opened} \cup {temp}) \ {Absent} :
       IF ok
       THEN /\ workers' = [workers EXCEPT ![w] = [@ EXCEPT !.pc = "remove",
                 !.bitrate = Bitrate(workers[w].quality), !.readFrom = src]]
            /\ files' = files \cup {Mp3Path(Title, workers[w].quality)}
       ELSE /\ workers' = [Fail(w, 500, MsgTranscode) EXCEPT ![w].bitrate = Bitrate(workers[w].quality)]
            /\ UNCHANGED files
  /\ UNCHANGED <<streams, dirExists, temp, remover, served>>

\* convert_to_mp3, lines 37-38, and api_download, line 109: os.remove(temp_path),
\* send_file(mp3_path)
RemoveAndSend(w) ==
  /\ workers[w].pc = "remove"
  /\ IF TempPath \notin files
     THEN /\ workers' = Fail(w, 500, MsgNoFile)
          /\ UNCHANGED <<files, temp, remover>>
     ELSE /\ workers' = SendFile(w, workers[w].stream)
          /\ files' = files \ {TempPath}
          /\ temp' = Absent
          /\ remover' = w
  /\ UNCHANGED <<streams, dirExists, served>>

\* api_download, lines 121-122: stream.download(output_path=output_dir), send_file
DownloadStream(w) ==
  /\ workers[w].pc = "download_stream"
  /\ \E ok \in BOOLEAN, partial \in BOOLEAN :
       LET s == CHOOSE s \in AllStreams : s.itag = workers[w].stream
       IN  /\ workers' = IF ok THEN SendFile(w, s.itag) ELSE Fail(w, 500, MsgDownload)
           /\ files' = IF ok \/ partial THEN files \cup {StreamPath(s)} ELSE files
  /\ UNCHANGED <<streams, dirExists, temp, remover, served>>

\* the server handling one request at a time
Next ==
  \/ GetChoices("w1")
  \/ BeginDownload("w1", ChoiceInputs)
  \/ Resolve("w1")
  \/ DownloadAudio("w1")
  \/ OpenClip("w1")
  \/ Transcode("w1")
  \/ RemoveAndSend("w1")
  \/ DownloadStream("w1")

Spec == Init /\ [][Next]_vars

\* the choices of the concurrent audio conversions
Mp3Inputs == {"MP3 High", "mp3 low"}

\* the server handling audio conversions on two threads
NextConc ==
  \E w \in Workers :
    \/ BeginDownload(w, Mp3Inputs)
    \/ Resolve(w)
    \/ DownloadAudio(w)
    \/ OpenClip(w)
    \/ Transcode(w)
    \/ RemoveAndSend(w)

SpecConc == Init /\ [][NextConc]_vars

(***************************************************************************)
(* The claims.  Their vocabulary is defined apart from the model's.        *)
(***************************************************************************)
UpperOf(c) == IF CharIn(c, LowerLetters) THEN CharAt(UpperLetters, IndexIn(c, LowerLetters)) ELSE c

\* word, given in lower case, occurs in s in some letter case
HasWord(s, word) ==
  \E i \in 1..(Len(s) - Len(word) + 1) :
    \A k \in 1..Len(word) : CharAt(s, i + k - 1) \in {CharAt(word, k), UpperOf(CharAt(word, k))}

Finished(r) == r.pc = "idle" /\ r.status # 0

StreamSet == {streams[i] : i \in 1..Len(streams)}

\* the video has no audio-only stream
NoAudioOnly == \A s \in StreamSet : s.is_progressive \/ SubSeq(s.mime_type, 1, 6) = "video/"

Segments(r) == Split(r.choice, " | ")

MissingField(r) == r.video_id = "" \/ (r.endpoint = "download" /\ r.choice = "")

\* the request failed before or while talking to the collaborator
UpstreamFailed(r) == r.error \in {MsgUpstream, MsgDownload}

WantedQuality(choice) ==
  IF HasWord(choice, "high") THEN "High" ELSE IF HasWord(choice, "medium") THEN "Medium" ELSE "Low"

WantedBitrate(choice) ==
  IF HasWord(choice, "high") THEN "320k" ELSE IF HasWord(choice, "medium") THEN "192k" ELSE "128k"

Mp3Files == {Mp3Path(Title, q) : q \in {"High", "Medium", "Low"}}

\* C1 (as stated): whenever /download is answered for a choice that is the
\* label get_download_options gives the i-th stream, and the collaborator did
\* not fail, the stream downloaded is that i-th stream.
C1_RoundTripEveryLabel ==
  \A w \in Workers : \A i \in 1..Len(streams) :
    LET r == workers[w]
    IN  (/\ r.endpoint = "download"
         /\ Finished(r)
         /\ ~MissingField(r)
         /\ ~UpstreamFailed(r)
         /\ r.choice = get_download_options(streams)[i].label)
        => r.downloaded = OrderedStreams(streams)[i].itag

C3_Classification ==
  \A w \in Workers :
    LET r == workers[w]
    IN  (r.endpoint = "download" /\ ~MissingField(r) /\ HasWord(r.choice, "mp3"))
        => /\ r.path \in {"", "audio"}
           /\ r.pc # "download_stream"
           /\ r.error \notin {MsgIndex, MsgNoQuality}
           /\ r.pc \in {"transcoding", "remove"} => r.quality = WantedQuality(r.choice)
           /\ r.quality # "" => r.quality = WantedQuality(r.choice)
           /\ (r.pc = "remove" \/ (Finished(r) /\ r.status = 200))
                => /\ r.bitrate = WantedBitrate(r.choice)
                   /\ Mp3Path(Title, WantedQuality(r.choice)) \in files
           /\ r.bitrate # "" => r.bitrate = WantedBitrate(r.choice)

C3_Witness ==
  \E w \in Workers :
    /\ workers[w].choice = "Mp3 HIGH"
    /\ workers[w].status = 200
    /\ workers[w].bitrate = "320k"

\* C4: on the stream path the stream chosen has the requested resolution and,
\* when some stream has that resolution and MIME type video/<ext>, that MIME
\* type too; when no stream has the resolution the request fails with
\* "Selected quality not available" and downloads nothing.
C4_Fallback ==
  \A w \in Workers :
    LET r == workers[w]
        res == Segments(r)[1]
        ext == Segments(r)[3]
        exact == {s \in StreamSet : s.resolution = res /\ s.mime_type = "video/" \o ext}
        byRes == {s \in StreamSet : s.resolution = res}
        allowed == IF exact # {} THEN exact ELSE byRes
    IN  (r.path = "stream" /\ Len(Segments(r)) >= 3)
        => /\ r.stream # 0 => r.stream \in {s.itag : s \in allowed}
           /\ r.downloaded # 0 => r.downloaded = r.stream
           /\ (Finished(r) /\ ~UpstreamFailed(r))
                => IF byRes = {}
                   THEN r.error = MsgNoQuality /\ r.stream = 0 /\ r.downloaded = 0 /\ r.body = "json"
                   ELSE r.status = 200 /\ r.body = "file" /\ r.downloaded \in {s.itag : s \in allowed}

C4_Witness ==
  \E w \in Workers :
    LET r == workers[w]
    IN  /\ r.path = "stream"
        /\ r.status = 200
        /\ \E s \in StreamSet : s.itag = r.downloaded /\ s.mime_type # "video/" \o Segments(r)[3]

\* C5 (as stated): a request with a missing field is answered 400 and every
\* other failing request 500, each with a JSON error body.
C5_EveryOtherError500 ==
  \A w \in Workers :
    LET r == workers[w]
    IN  (Finished(r) /\ r.status # 200)
        => /\ r.body = "json"
           /\ r.error # ""
           /\ r.status = IF MissingField(r) THEN 400 ELSE 500

\* C5 (amended): a request with a missing field and a selection failure ("No
\* audio stream available", "Selected quality not available") are answered
\* 400, every other failing request 500, each with a JSON error body.
C5_SelectionErrors400 ==
  \A w \in Workers :
    LET r == workers[w]
        selection ==
          /\ r.endpoint = "download"
          /\ ~UpstreamFailed(r)
          /\ \/ r.path = "audio" /\ NoAudioOnly
             \/ /\ r.path = "stream"
                /\ Len(Segments(r)) >= 3
                /\ ~\E s \in StreamSet : s.resolution = Segments(r)[1]
    IN  /\ (Finished(r) /\ r.status # 200)
          => /\ r.body = "json"
             /\ r.error # ""
             /\ r.status = IF MissingField(r) \/ selection THEN 400 ELSE 500
        /\ (Finished(r) /\ (MissingField(r) \/ selection)) => r.status = 400

C5_Witness ==
  \E w \in Workers :
    /\ Finished(workers[w])
    /\ workers[w].error = MsgNoAudio
    /\ workers[w].status = 400

C6_State ==
  \A w \in Workers :
    LET r == workers[w]
    IN  r.path = "audio"
        => /\ r.pc \in {"open_clip", "transcoding", "remove"} => TempPath \in files /\ temp = w
           /\ (Finished(r) /\ r.status = 200)
                => TempPath \notin files /\ Mp3Path(Title, r.quality) \in files
           /\ (Finished(r) /\ r.error = MsgTranscode) => TempPath \in files

C6_Step ==
  /\ (TempPath \in files /\ TempPath \notin files')
       => \E w \in Workers :
            /\ workers[w].pc = "remove"
            /\ workers[w].bitrate # ""
            /\ Mp3Path(Title, workers[w].quality) \in files
            /\ workers'[w].status = 200
  /\ \A f \in files \ {TempPath} : f \in files'

\* C6: with one request at a time, downloads/temp.mp4 exists from the audio
\* download until the transcoder has finished; it is removed only by the
\* request whose transcoding succeeded; after a successful request it is
\* absent and the output present; after a failed transcoding it is still
\* there; no output file is ever deleted.
C6_TempFileLifecycle == [](C6_State) /\ [][C6_Step]_vars

C6_Witness ==
  \E w \in Workers :
    /\ Finished(workers[w])
    /\ workers[w].error = MsgTranscode
    /\ TempPath \in files
    /\ Mp3Files \cap files # {}

\* C7: for a video without an audio-only stream, a /download whose choice
\* contains "mp3" fails with "No audio stream available" once the
\* collaborator has resolved the video, and downloads and transcodes nothing:
\* neither temp.mp4 nor an output file exists.
C7_NoAudioStream ==
  NoAudioOnly
  => /\ TempPath \notin files
     /\ Mp3Files \cap files = {}
     /\ \A w \in Workers :
          LET r == workers[w]
          IN  (r.endpoint = "download" /\ ~MissingField(r) /\ HasWord(r.choice, "mp3"))
              => /\ r.pc \in {"resolve", "idle"}
                 /\ r.stream = 0 /\ r.downloaded = 0 /\ r.bitrate = ""
                 /\ (Finished(r) /\ ~UpstreamFailed(r)) => r.error = MsgNoAudio /\ r.status # 200

C7_Witness ==
  \E w \in Workers :
    /\ workers[w].choice = "mp3 low"
    /\ workers[w].error = MsgNoAudio
    /\ Len(streams) >= 1
    /\ files = {}

\* C8 (as stated): in every successful /get_choices response the size field
\* of a stream of known size is round(size_mb * 0.6, 2) followed by
\* " MB (est.)", size_mb being the size in hundredths of a megabyte, and the
\* field is "?" exactly when the size is unknown.
C8_SizeFieldOfKnownSize ==
  \A w \in Workers : \A i \in 1..Len(streams) :
    LET r == workers[w]
        s == OrderedStreams(streams)[i]
        field == Split(r.listed[i].label, " | ")[4]
        hundredths == RoundHalfEven(s.filesize * 25, 262144)
    IN  (r.endpoint = "get_choices" /\ r.status = 200)
        => /\ s.filesize # NoSize
                => field = FloatStr((6 * hundredths + 5) \div 10) \o " MB (est.)"
           /\ field = "?" <=> s.filesize = NoSize

\* C9: a request finds temp.mp4 missing only after the other thread's
\* os.remove, and reads audio another request downloaded only when a second
\* request was begun: the collisions come from the shared file name, which
\* exists exactly while some download's audio is stored under it.
C9_CollisionOnlyByOtherRequest ==
  /\ temp = Absent <=> TempPath \notin files
  /\ \A w \in Workers :
       /\ workers[w].error = MsgNoFile => remover \in Workers \ {w}
       /\ workers[w].readFrom \notin {Absent, w} => served >= 2

\* a request transcoded the other request's audio, whose own request then
\* failed because the file was gone
C9_Witness ==
  \E w \in Workers : \E v \in Workers \ {w} :
    /\ workers[w].readFrom = v
    /\ workers[w].status = 200
    /\ workers[v].error = MsgNoFile

C10_State ==
  \A w \in Workers :
    LET r == workers[w]
    IN  (/\ r.endpoint = "download"
         /\ ~MissingField(r)
         /\ ~HasWord(r.choice, "mp3")
         /\ Len(Segments(r)) < 3)
        => /\ r.pc \in {"resolve", "idle"}
           /\ dirExists
           /\ r.stream = 0 /\ r.downloaded = 0
           /\ Finished(r) => r.status = 500 /\ r.body = "json" /\ r.error \notin {"", MsgNoQuality, MsgNoAudio}

C10_Step ==
  \A w \in Workers :
    LET r == workers'[w]
    IN  (/\ r # workers[w]
         /\ r.endpoint = "download"
         /\ ~MissingField(r)
         /\ ~HasWord(r.choice, "mp3")
         /\ Len(Segments(r)) < 3)
        => files' = files /\ temp' = temp /\ dirExists'

====
